---- MODULE Spec2Model ----
(***************************************************************************)
(* A model of eyd.py: pruning a filesystem subtree by moving everything    *)
(* that is not covered by a keep list into a timestamped quarantine        *)
(* directory.                                                              *)
(*                                                                         *)
(* Paths are Python strings.  The code decides everything with character   *)
(* level tests (==, startswith, slicing, sorted), so a string is modelled  *)
(* as a sequence of one-character strings and every test is computed on    *)
(* the characters.                                                         *)
(***************************************************************************)
EXTENDS Integers, Sequences, FiniteSets, TLC

VARIABLES
    root,       \* sys.argv[1]; the base of the pure-function specifications
    args,       \* the keep fragments decoded from sys.argv[2:], as a set
    partitions, \* the mount points reported by psutil.disk_partitions()
    stamp,      \* timestamp.strftime('%Y-%m-%dT%H-%M-%S')
    fs,         \* the filesystem: path -> "dir" | "file"
    fs0,        \* the filesystem when the program started
    keep,       \* the keep list (a sorted list of strings)
    target,     \* the quarantine target
    pc,         \* the position of the program
    stack,      \* the frames of the suspended walk generators
    pending,    \* the paths handed to move_dirty's loop and not yet moved
    log,        \* the filesystem operations performed, in order
    again,      \* SpecNorm: normalize_keep applied to its own output
    entry,      \* SpecClassify: the entry path classified
    verdict,    \* SpecClassify: walk_action(entry, keep)
    verdict2    \* SpecClassify: walk_action(entry, a reordering of keep)

vars == <<root, args, partitions, stamp, fs, fs0, keep, target, pc, stack,
          pending, log, again, entry, verdict, verdict2>>

----------------------------------------------------------------------------
(* Bounds *)

\* the largest number of keep fragments on the command line
MaxArgs == 2

\* the largest fragment set handed to normalize_keep on its own
MaxFrags == 3

\* the longest keep list handed to walk_action on its own
MaxKeepLen == 2

----------------------------------------------------------------------------
(* Python strings *)

\* the characters in use, in code point order
Alphabet == <<"-", "/", "0", "1", "2", "3", "4", "5", "6", "7", "8", "9",
              "T", "a", "b", "d", "l", "o", "r", "t">>

Ord(c) == CHOOSE i \in 1..Len(Alphabet) : Alphabet[i] = c

Slash == <<"/">>

\* s.startswith(p)
StartsWith(s, p) == /\ Len(p) <= Len(s)
                    /\ \A i \in 1..Len(p) : s[i] = p[i]

\* s[n:]
From(s, n) == SubSeq(s, n + 1, Len(s))

\* s < t, as Python compares str
StrLess(s, t) ==
    \E i \in 1..(Len(t)) :
        /\ i <= Len(s) + 1
        /\ SubSeq(s, 1, i - 1) = SubSeq(t, 1, i - 1)
        /\ \/ i = Len(s) + 1
           \/ Ord(s[i]) < Ord(t[i])

\* s.rstrip('/')
RECURSIVE RStrip(_)
RStrip(s) == IF s # <<>> /\ s[Len(s)] = "/"
             THEN RStrip(SubSeq(s, 1, Len(s) - 1))
             ELSE s

\* s.rfind('/') + 1
RFindSlash(s) ==
    LET at == {i \in 1..Len(s) : s[i] = "/"}
    IN  IF at = {} THEN 0 ELSE CHOOSE i \in at : \A j \in at : j <= i

\* posixpath.join(a, b)
Join(a, b) == IF StartsWith(b, Slash) THEN b
              ELSE IF a = <<>> \/ a[Len(a)] = "/" THEN a \o b
              ELSE a \o Slash \o b

\* posixpath.dirname(p)
Dirname(p) ==
    LET head == SubSeq(p, 1, RFindSlash(p))
    IN  IF head # <<>> /\ RStrip(head) # <<>> THEN RStrip(head) ELSE head

\* posixpath.basename(p)
Basename(p) == From(p, RFindSlash(p))

\* pathlib.Path(s).absolute().as_posix() for an absolute s: repeated and
\* trailing separators are dropped
RECURSIVE Collapse(_)
Collapse(s) ==
    IF \A i \in 1..(Len(s) - 1) : ~ (s[i] = "/" /\ s[i + 1] = "/") THEN s
    ELSE IF s[1] = "/" /\ s[2] = "/" THEN Collapse(Tail(s))
    ELSE <<s[1]>> \o Collapse(Tail(s))

AsPosix(s) == LET c == Collapse(s)
              IN  IF RStrip(c) = <<>> THEN c ELSE RStrip(c)

\* sorted(): insertion of one string into a sorted list
RECURSIVE Insert(_, _)
Insert(x, l) == IF l = <<>> THEN <<x>>
                ELSE IF StrLess(l[1], x) THEN <<l[1]>> \o Insert(x, Tail(l))
                ELSE <<x>> \o l

Elems(l) == {l[i] : i \in 1..Len(l)}

\* the sets of at most n elements of S
RECURSIVE SetsUpTo(_, _)
SetsUpTo(S, n) == IF n = 0 THEN {{}}
                  ELSE LET smaller == SetsUpTo(S, n - 1)
                       IN  smaller \cup {t \cup {x} : t \in smaller, x \in S}

----------------------------------------------------------------------------
(* walk_action *)

\* walk_action with the separator left out of the ancestor test
RECURSIVE walk_action_noSep(_, _)
walk_action_noSep(e, k) ==
    IF k = <<>> THEN "yield"
    ELSE IF e = k[1] THEN "skip"
    ELSE IF StartsWith(k[1], e) THEN "recurse"
    ELSE walk_action_noSep(e, Tail(k))

RECURSIVE walk_action(_, _)
walk_action(e, k) ==
    IF k = <<>> THEN "yield"
    ELSE IF e = k[1] THEN "skip"
    ELSE IF StartsWith(k[1], e \o Slash) THEN "recurse"
    ELSE walk_action(e, Tail(k))

----------------------------------------------------------------------------
(* normalize_keep *)

\* the items no other item is a strict ancestor of (the for/else of the code)
Survivors(items) ==
    {i1 \in items :
        ~ \E i2 \in items : i1 # i2 /\ StartsWith(i1, i2 \o Slash)}

RECURSIVE SortedJoin(_, _)
SortedJoin(base, items) ==
    IF items = {} THEN <<>>
    ELSE LET i == CHOOSE x \in items : TRUE
         IN  Insert(Join(base, From(i, 1)), SortedJoin(base, items \ {i}))

normalize_keep(base, items) == SortedJoin(base, Survivors(items))

----------------------------------------------------------------------------
(* The filesystem *)

Kinds == {"dir", "file"}

\* os.path.exists(p)
Exists(f, p) == p \in DOMAIN f

\* os.path.isdir(p), Path(p).is_dir()
IsDir(f, p) == p \in DOMAIN f /\ f[p] = "dir"

\* p lies strictly below the directory q
Below(p, q) == p # q /\ StartsWith(p, Join(q, <<>>))

\* the directories above p, up to the filesystem root
RECURSIVE Ancestors(_)
Ancestors(p) == IF Dirname(p) = p \/ Dirname(p) = <<>> THEN {}
                ELSE {Dirname(p)} \cup Ancestors(Dirname(p))

\* the paths pathlib.Path(d).iterdir() lists, each as absolute().as_posix()
iterdir(f, d) == {p \in DOMAIN f : p # AsPosix(d) /\ Dirname(p) = AsPosix(d)}

\* shutil.rmtree(t)
rmtree(f, t) ==
    LET gone == {p \in DOMAIN f : p = t \/ Below(p, t)}
    IN  [p \in DOMAIN f \ gone |-> f[p]]

\* os.makedirs(p, 0o700) raises when p exists or a file is in the way
makedirs_ok(f, p) ==
    /\ ~ Exists(f, p)
    /\ \A a \in Ancestors(p) : Exists(f, a) => f[a] = "dir"

\* os.makedirs(p, 0o700)
makedirs(f, p) ==
    LET made == ({p} \cup Ancestors(p)) \ DOMAIN f
    IN  [q \in DOMAIN f \cup made |-> IF q \in made THEN "dir" ELSE f[q]]

\* the subtree at src taken to dst
Moved(f, src, dst) ==
    LET sub == {p \in DOMAIN f : p = src \/ Below(p, src)}
        new == {dst \o From(p, Len(src)) : p \in sub}
    IN  [q \in (DOMAIN f \ sub) \cup new |->
            IF q \in new
            THEN f[CHOOSE p \in sub : dst \o From(p, Len(src)) = q]
            ELSE f[q]]

\* shutil.move(src, dst): where the entry would land
real_dst(f, src, dst) ==
    IF IsDir(f, dst) THEN Join(dst, Basename(src)) ELSE dst

\* shutil.move(src, dst) raises: the destination exists inside dst, a
\* directory cannot replace a file, or the destination is inside src
move_raises(f, src, dst) ==
    LET real == real_dst(f, src, dst)
    IN  \/ IsDir(f, dst) /\ Exists(f, real)
        \/ IsDir(f, src) /\ Exists(f, real)
        \/ real = src \/ Below(real, src)

----------------------------------------------------------------------------
(* walk *)

\* walk(d, k) run to its end over a tree that does not change: the set of
\* the paths it yields
RECURSIVE walk(_, _, _)
walk(f, d, k) ==
    UNION {LET action == walk_action(e, k)
           IN  IF action = "recurse" /\ IsDir(f, e) THEN walk(f, e, k)
               ELSE IF action = "yield" THEN {e}
               ELSE {} : e \in iterdir(f, d)}

----------------------------------------------------------------------------
(* main and move_dirty *)

\* target = '/oldroot'
OldRoot == <<"/", "o", "l", "d", "r", "o", "o", "t">>

Frame(d) == [dir |-> d, listed |-> FALSE, todo |-> {}]

Event(op, p) == [op |-> op, path |-> p]

Top == stack[Len(stack)]

Pop == SubSeq(stack, 1, Len(stack) - 1)

\* lines 59-64: the mount points under the root
mountpoints(r, parts) == {x \in parts : StartsWith(x, r \o Slash)}

\* final_keep that takes the root for a mount point to keep
final_keep_rootKept(r, frags, parts) ==
    normalize_keep(Slash,
        Elems(normalize_keep(r, frags \cup {OldRoot}))
            \cup {x \in parts : x = r \/ StartsWith(x, r \o Slash)})

\* lines 65-77: the two passes of normalize_keep
final_keep(r, frags, parts) ==
    normalize_keep(Slash,
        Elems(normalize_keep(r, frags \cup {OldRoot}))
            \cup (mountpoints(r, parts) \ {r}))

\* destination that drops the directories between the root and the path
destination_flat(r, t, path) == Join(t, Basename(path))

\* line 47: the destination of a path
destination(r, t, path) == Join(t, From(From(path, Len(RStrip(r))), 1))

inputs == <<root, args, partitions, stamp, fs0>>
pure == <<again, entry, verdict, verdict2>>

\* main, lines 55-82, up to the call of move_dirty
Main ==
    /\ pc = "main"
    /\ keep' = final_keep(root, args, partitions)
    /\ target' = Join(OldRoot, stamp)
    /\ pc' = "move_dirty"
    /\ UNCHANGED <<inputs, pure, fs, stack, pending, log>>

\* PreClean that leaves an existing quarantine target in place
PreClean_noRmtree ==
    /\ pc = "move_dirty"
    /\ target' = Join(root, From(target, 1))
    /\ stack' = <<Frame(root)>>
    /\ pc' = "walk"
    /\ UNCHANGED <<inputs, pure, fs, log, keep, pending>>

\* move_dirty, lines 43-46: the pre-clean and the creation of the generator
PreClean ==
    /\ pc = "move_dirty"
    /\ LET t == Join(root, From(target, 1))
       IN  /\ target' = t
           /\ IF IsDir(fs, t)
              THEN /\ fs' = rmtree(fs, t)
                   /\ log' = Append(log, Event("rmtree", t))
              ELSE UNCHANGED <<fs, log>>
    /\ stack' = <<Frame(root)>>
    /\ pc' = "walk"
    /\ UNCHANGED <<inputs, pure, keep, pending>>

\* walk, line 21: a generator that is resumed for the first time lists its
\* directory
WalkList ==
    /\ pc = "walk" /\ pending = <<>>
    /\ stack # <<>> /\ ~ Top.listed
    /\ IsDir(fs, AsPosix(Top.dir))
    /\ stack' = [stack EXCEPT ![Len(stack)] =
                    [@ EXCEPT !.listed = TRUE, !.todo = iterdir(fs, Top.dir)]]
    /\ log' = Append(log, Event("list", Top.dir))
    /\ UNCHANGED <<inputs, pure, fs, keep, target, pc, pending>>

\* walk, line 21: the listing raises (permission denied, path vanished)
ListFail ==
    /\ pc = "walk" /\ pending = <<>>
    /\ stack # <<>> /\ ~ Top.listed
    /\ log' = Append(log, Event("listfail", Top.dir))
    /\ pc' = "aborted"
    /\ UNCHANGED <<inputs, pure, fs, keep, target, stack, pending>>

\* WalkEntry of a walk that is run ahead of the moves (list(walk(...)))
WalkEntry_eager ==
    /\ pc = "walk"
    /\ stack # <<>> /\ Top.listed
    /\ \E e \in Top.todo :
        LET action == walk_action(e, keep)
            rest == [stack EXCEPT ![Len(stack)] =
                        [@ EXCEPT !.todo = Top.todo \ {e}]]
        IN  /\ stack' = IF action = "recurse" /\ IsDir(fs, e)
                        THEN Append(rest, Frame(e))
                        ELSE rest
            /\ pending' = IF action = "yield" THEN Append(pending, e)
                          ELSE pending
            /\ log' = IF action = "yield"
                      THEN Append(log, Event("yield", e))
                      ELSE log
    /\ UNCHANGED <<inputs, pure, fs, keep, target, pc>>

\* walk, lines 21-28: the next entry of the listing, in any order
WalkEntry ==
    /\ pc = "walk" /\ pending = <<>>
    /\ stack # <<>> /\ Top.listed
    /\ \E e \in Top.todo :
        LET action == walk_action(e, keep)
            rest == [stack EXCEPT ![Len(stack)] =
                        [@ EXCEPT !.todo = Top.todo \ {e}]]
        IN  /\ stack' = IF action = "recurse" /\ IsDir(fs, e)
                        THEN Append(rest, Frame(e))
                        ELSE rest
            /\ pending' = IF action = "yield" THEN <<e>> ELSE pending
            /\ log' = IF action = "yield"
                      THEN Append(log, Event("yield", e))
                      ELSE log
    /\ UNCHANGED <<inputs, pure, fs, keep, target, pc>>

\* walk: a listing is exhausted, the generator returns to its caller
WalkReturn ==
    /\ pc = "walk" /\ pending = <<>>
    /\ stack # <<>> /\ Top.listed /\ Top.todo = {}
    /\ stack' = Pop
    /\ pc' = IF Pop = <<>> THEN "done" ELSE pc
    /\ UNCHANGED <<inputs, pure, fs, keep, target, pending, log>>

\* move_dirty, lines 47-52: the body of the loop for one path.  os.rename
\* of a mount point fails, shutil.move then copies the tree and deletes the
\* source, and the deletion raises at the mount point itself.
Move ==
    /\ pc = "walk" /\ pending # <<>>
    /\ LET path == Head(pending)
           to == destination(root, target, path)
           parent == Dirname(to)
           ready == IF IsDir(fs, parent) THEN fs ELSE makedirs(fs, parent)
           real == real_dst(ready, path, to)
       IN  IF ~ IsDir(fs, parent) /\ ~ makedirs_ok(fs, parent)
           THEN /\ log' = Append(log, Event("movefail", path))
                /\ pc' = "aborted"
                /\ UNCHANGED <<fs, pending>>
           ELSE IF move_raises(ready, path, to)
           THEN /\ fs' = ready
                /\ log' = Append(log, Event("movefail", path))
                /\ pc' = "aborted"
                /\ UNCHANGED pending
           ELSE IF path \in partitions
           THEN /\ fs' = (path :> "dir") @@ Moved(ready, path, real)
                /\ log' = Append(log, Event("movefail", path))
                /\ pc' = "aborted"
                /\ UNCHANGED pending
           ELSE /\ fs' = Moved(ready, path, real)
                /\ log' = Append(log, Event("move", path))
                /\ pending' = Tail(pending)
                /\ UNCHANGED pc
    /\ UNCHANGED <<inputs, pure, keep, target, stack>>

\* MoveFail of a loop that catches the error and goes on to the next path
MoveFail_continue ==
    /\ pc = "walk" /\ pending # <<>>
    /\ log' = Append(log, Event("movefail", Head(pending)))
    /\ pending' = Tail(pending)
    /\ UNCHANGED <<inputs, pure, fs, keep, target, stack, pc>>

\* move_dirty, line 52: shutil.move raises for a reason of the environment
\* (permission denied, no space), after the parents were made
MoveFail ==
    /\ pc = "walk" /\ pending # <<>>
    /\ LET path == Head(pending)
           to == destination(root, target, path)
           parent == Dirname(to)
       IN  /\ IsDir(fs, parent) \/ makedirs_ok(fs, parent)
           /\ fs' = IF IsDir(fs, parent) THEN fs ELSE makedirs(fs, parent)
           /\ log' = Append(log, Event("movefail", path))
    /\ pc' = "aborted"
    /\ UNCHANGED <<inputs, pure, keep, target, stack, pending>>

Next == \/ Main
        \/ PreClean
        \/ WalkList
        \/ ListFail
        \/ WalkEntry
        \/ WalkReturn
        \/ Move
        \/ MoveFail

----------------------------------------------------------------------------
(* The inputs of a run *)

Roots == {<<"/", "r">>, <<"/", "r", "/">>, <<"/">>}

\* one value of strftime('%Y-%m-%dT%H-%M-%S')
Stamps == {<<"2", "0", "2", "6", "-", "1", "1", "-", "0", "5", "T",
             "2", "2", "-", "3", "1", "-", "0", "0">>}

\* the keep fragments a user may write
ArgFragments == {<<"/", "a">>, <<"/", "a", "/">>, <<"/", "a", "/", "a">>,
                 <<"/", "a", "b">>}

\* the entries a tree may hold, relative to the root, with their kinds
TreeKinds(st) ==
    LET q == OldRoot \o Slash \o st
    IN  (<<"/", "a">> :> Kinds)
        @@ (<<"/", "a", "/", "a">> :> {"dir"})
        @@ (<<"/", "a", "/", "a", "b">> :> {"file"})
        @@ (<<"/", "a", "b">> :> {"file"})
        @@ (OldRoot :> {"dir"})
        @@ (q :> Kinds)
        @@ (q \o <<"/", "a", "b">> :> {"file"})

\* the trees under the root: every entry but a top-level one has a
\* directory as its parent, and a quarantine directory left by an earlier
\* run is not empty (a file may also be in its place)
Trees(r, st) ==
    LET U == TreeKinds(st)
        q == OldRoot \o Slash \o st
        base == RStrip(AsPosix(r))
        up == {AsPosix(r)} \cup Ancestors(AsPosix(r))
        shapes == UNION {[S -> Kinds] : S \in SUBSET DOMAIN U}
        good == {t \in shapes :
                    /\ \A p \in DOMAIN t :
                        /\ t[p] \in U[p]
                        /\ Dirname(p) # Slash => /\ Dirname(p) \in DOMAIN t
                                                 /\ t[Dirname(p)] = "dir"
                    /\ (q \in DOMAIN t /\ t[q] = "dir")
                          => q \o <<"/", "a", "b">> \in DOMAIN t}
    IN  {[p \in up \cup {base \o x : x \in DOMAIN t} |->
            IF p \in up THEN "dir" ELSE t[From(p, Len(base))]] : t \in good}

\* the mount points psutil may report: the filesystem root, the operation
\* root, and directories under it outside the quarantine
Mountable(r, f) ==
    LET base == Join(AsPosix(r), From(OldRoot, 1))
    IN  {p \in DOMAIN f : f[p] = "dir" /\ p # base /\ ~ Below(p, base)}

Init ==
    /\ root \in Roots
    /\ args \in SetsUpTo(ArgFragments, MaxArgs)
    /\ stamp \in Stamps
    /\ fs0 \in Trees(root, stamp)
    /\ partitions \in {m \in SUBSET Mountable(root, fs0) : Slash \in m}
    /\ fs = fs0
    /\ keep = <<>>
    /\ target = OldRoot
    /\ pc = "main"
    /\ stack = <<>>
    /\ pending = <<>>
    /\ log = <<>>
    /\ again = <<>> /\ entry = <<>> /\ verdict = "" /\ verdict2 = ""

Spec == Init /\ [][Next]_vars

----------------------------------------------------------------------------
(* normalize_keep on its own *)

\* the pieces fragments are written from
Pieces == {<<>>, <<"/">>, <<"/", "a">>, <<"/", "a", "b">>}

\* the fragments: every string of up to three pieces, each starting with '/'
FragStrings == {x \o y \o z : x, y, z \in Pieces} \ {<<>>}

Bases == {<<"/">>, <<"/", "r">>, <<"/", "r", "/">>}

\* a path of the output as a fragment relative to the base, cut as line 47
\* cuts a path relative to the root
RelFragment(base, p) == From(p, Len(RStrip(base)))

InitNorm ==
    /\ root \in Bases
    /\ args \in SetsUpTo(FragStrings, MaxFrags)
    /\ pc = "norm"
    /\ keep = <<>> /\ again = <<>>
    /\ partitions = {} /\ stamp = <<>> /\ fs = <<>> /\ fs0 = <<>>
    /\ target = <<>> /\ stack = <<>> /\ pending = <<>> /\ log = <<>>
    /\ entry = <<>> /\ verdict = "" /\ verdict2 = ""

Normalize ==
    /\ pc = "norm"
    /\ keep' = normalize_keep(root, args)
    /\ pc' = "normed"
    /\ UNCHANGED <<inputs, fs, target, stack, pending, log, pure>>

NormalizeAgain ==
    /\ pc = "normed"
    /\ again' = normalize_keep(root, {RelFragment(root, p) : p \in Elems(keep)})
    /\ pc' = "renormed"
    /\ UNCHANGED <<inputs, fs, target, stack, pending, log, keep, entry,
                   verdict, verdict2>>

NextNorm == Normalize \/ NormalizeAgain

SpecNorm == InitNorm /\ [][NextNorm]_vars

----------------------------------------------------------------------------
(* walk_action on its own *)

\* entry paths and keep elements: every string of up to two pieces
ClassStrings == {x \o y : x, y \in Pieces}

\* the keep lists of up to n elements
RECURSIVE Lists(_)
Lists(n) == IF n = 0 THEN {<<>>}
            ELSE Lists(n - 1) \cup
                 {Append(l, x) : l \in Lists(n - 1), x \in ClassStrings}

\* the reorderings of a list
Reorderings(l) ==
    {[i \in 1..Len(l) |-> l[f[i]]] :
        f \in {g \in [1..Len(l) -> 1..Len(l)] :
                  \A i, j \in 1..Len(l) : i # j => g[i] # g[j]}}

InitClassify ==
    /\ entry \in ClassStrings
    /\ keep \in Lists(MaxKeepLen)
    /\ pc = "classify"
    /\ verdict = "" /\ verdict2 = ""
    /\ root = <<>> /\ args = {} /\ again = <<>>
    /\ partitions = {} /\ stamp = <<>> /\ fs = <<>> /\ fs0 = <<>>
    /\ target = <<>> /\ stack = <<>> /\ pending = <<>> /\ log = <<>>

Classify ==
    /\ pc = "classify"
    /\ verdict' = walk_action(entry, keep)
    /\ pc' = "classified"
    /\ UNCHANGED <<inputs, fs, keep, target, stack, pending, log, again,
                   entry, verdict2>>

ClassifyReordered ==
    /\ pc = "classified"
    /\ \E k \in Reorderings(keep) :
        /\ keep' = k
        /\ verdict2' = walk_action(entry, k)
    /\ pc' = "reordered"
    /\ UNCHANGED <<inputs, fs, target, stack, pending, log, again, entry,
                   verdict>>

NextClassify == Classify \/ ClassifyReordered

SpecClassify == InitClassify /\ [][NextClassify]_vars

----------------------------------------------------------------------------
(* Claims about normalize_keep (SpecNorm) *)

\* a is a strict descendant of b by the test of the code
Nested(a, b) == StartsWith(a, b \o Slash)

IsSorted(l) == \A i \in 1..(Len(l) - 1) : ~ StrLess(l[i + 1], l[i])

NonNested(l) == \A i, j \in 1..Len(l) : ~ Nested(l[i], l[j])

Normed == pc \in {"normed", "renormed"}

\* C5: the list normalize_keep returns is sorted, holds exactly the joined
\* paths of the fragments that have no other fragment as strict ancestor,
\* and no element of it is a strict descendant of another element
C5_Minimal ==
    Normed =>
        /\ IsSorted(keep)
        /\ Elems(keep) =
              {Join(root, From(f, 1)) :
                  f \in {g \in args : \A h \in args \ {g} : ~ Nested(g, h)}}
        /\ NonNested(keep)

\* C5 for the fragments whose second character is not '/'
PlainFragments == \A f \in args : Len(f) < 2 \/ f[2] # "/"

C5_MinimalPlain == PlainFragments => C5_Minimal

\* C6: normalize_keep applied to its own output, taken as fragments
\* relative to the base, returns the same set of paths
C6_Idempotent == pc = "renormed" => Elems(again) = Elems(keep)

C6_IdempotentPlain == PlainFragments => C6_Idempotent

----------------------------------------------------------------------------
(* Claims about walk_action (SpecClassify) *)

Classified == pc \in {"classified", "reordered"}

\* C7: for a keep list of mutually non-nested elements walk_action returns
\* 'skip' exactly when the entry equals an element, 'recurse' exactly when
\* entry + '/' is a prefix of an element, 'yield' otherwise, whatever the
\* order of the list; the entry "/a" with the keep list ["/ab"] is 'yield'
C7_Classification ==
    (Classified /\ NonNested(keep)) =>
        LET equal == \E k \in Elems(keep) : entry = k
            above == \E k \in Elems(keep) : StartsWith(k, entry \o Slash)
        IN  /\ verdict = "skip" <=> equal
            /\ verdict = "recurse" <=> above
            /\ verdict = "yield" <=> ~ equal /\ ~ above
            /\ pc = "reordered" => verdict2 = verdict
            /\ (entry = <<"/", "a">> /\ Elems(keep) = {<<"/", "a", "b">>})
                  => verdict = "yield"

\* the entry "/a" was classified against the keep list ["/ab", "/a/ab"] in
\* both orders: the first element shares only characters with it, the
\* second lies under it
C7_Witness ==
    /\ pc = "reordered"
    /\ entry = <<"/", "a">>
    /\ keep = <<<<"/", "a", "b">>, <<"/", "a", "/", "a", "b">>>>
    /\ verdict = "recurse" /\ verdict2 = "recurse"

----------------------------------------------------------------------------
(* Claims about a run (Spec) *)

\* the operation root as the filesystem names it
R == AsPosix(root)

\* the quarantine target of the run
QTarget == Join(root, From(Join(OldRoot, stamp), 1))

\* the quarantine base <root>/oldroot
QBase == Join(root, From(OldRoot, 1))

\* the paths of the events of one kind
Events(op) == {log[i].path : i \in {j \in 1..Len(log) : log[j].op = op}}

\* p is the path P or lies under it
Covers(P, p) == p = AsPosix(P) \/ Below(p, AsPosix(P))

KeepBuilt == pc # "main"

Archived(p) == /\ p \notin DOMAIN fs
               /\ destination(root, QTarget, p) \in DOMAIN fs
               /\ fs[destination(root, QTarget, p)] = fs0[p]

\* C1: no path equal to or under an element of the final keep list is
\* emitted by the walk, and after the run each is where it was and has no
\* copy under the quarantine target
C1_KeepProtection ==
    KeepBuilt =>
        \A P \in Elems(keep) : \A p \in DOMAIN fs0 :
            Covers(P, p) =>
                /\ p \notin Events("yield")
                /\ (pc = "done" /\ ~ Covers(QTarget, p)) =>
                      /\ p \in DOMAIN fs
                      /\ destination(root, QTarget, p) \notin DOMAIN fs

\* C1 for the keep paths written without a trailing '/'
C1_PlainKeep ==
    KeepBuilt =>
        \A P \in {k \in Elems(keep) : k = AsPosix(k)} : \A p \in DOMAIN fs0 :
            Covers(P, p) =>
                /\ p \notin Events("yield")
                /\ (pc = "done" /\ ~ Covers(QTarget, p)) =>
                      /\ p \in DOMAIN fs
                      /\ destination(root, QTarget, p) \notin DOMAIN fs

\* the entries C2 speaks of: under the root, not covered by a keep path, not
\* under a mount point
Dirty(p) ==
    /\ Below(p, R)
    /\ \A P \in Elems(keep) : ~ Covers(P, p)
    /\ \A m \in partitions : Below(m, R) => ~ Below(p, m)

\* p is a strict ancestor of a keep path, by the test of the code
AboveKeep(p) == \E P \in Elems(keep) : StartsWith(P, p \o Slash)

\* C2 as claimed: after a run that ends without error every entry under the
\* root that is neither covered by a keep path nor under a mount point is at
\* the same relative path under the quarantine target and gone from its
\* place, strict ancestors of keep paths included
C2_AllArchived ==
    pc = "done" => \A p \in DOMAIN fs0 : Dirty(p) => Archived(p)

\* C2 amended: the same for the entries that are not a strict ancestor of a
\* keep path
C2_ArchivedUnlessAboveKeep ==
    pc = "done" =>
        \A p \in DOMAIN fs0 : (Dirty(p) /\ ~ AboveKeep(p)) => Archived(p)

\* a run ended that moved an entry out of a directory that stayed in place
\* because a keep path lies under it
C2_Witness ==
    /\ pc = "done"
    /\ \E p \in Events("move") :
          /\ Dirname(p) # R /\ AboveKeep(Dirname(p))
          /\ Dirname(p) \in DOMAIN fs /\ Archived(p)

RootIsMount == R \in partitions

\* C3 as claimed: when the root is itself a mount point and no keep
\* fragments are supplied, the walk emits nothing and nothing changes place
C3_NothingMoved ==
    (RootIsMount /\ args = {}) =>
        /\ Events("yield") = {}
        /\ \A p \in DOMAIN fs0 : ~ Covers(QTarget, p) => p \in DOMAIN fs

\* C3 amended: when the root is itself a mount point and no keep fragments
\* are supplied, the root is not a keep path, and a run that ends without
\* error has moved every entry of the root directory but the quarantine
\* base and the entries that are, or hold, a mount point
C3_RootMountPruned ==
    (RootIsMount /\ args = {} /\ KeepBuilt) =>
        /\ root \notin Elems(keep) /\ R \notin Elems(keep)
        /\ pc = "done" =>
              \A p \in iterdir(fs0, root) :
                  (p # QBase /\ \A m \in partitions : ~ Covers(p, m))
                      => Archived(p)

\* a run with the root a mount point and no fragments ended and moved an
\* entry
C3_Witness ==
    /\ pc = "done" /\ RootIsMount /\ args = {}
    /\ \E p \in Events("move") : Archived(p)

\* C4: every mount point under the root is equal to or under an element of
\* the final keep list, the walk never lists it and never emits it or a
\* path under it
C4_MountBoundary ==
    KeepBuilt =>
        \A m \in partitions :
            Below(m, R) =>
                /\ \E k \in Elems(keep) : m = k \/ Nested(m, k)
                /\ \A d \in Events("list") : AsPosix(d) # m
                /\ \A y \in Events("yield") : ~ Covers(m, y)

\* C4 for a root that does not end with '/'
C4_PlainRoot == (root = R /\ root # Slash) => C4_MountBoundary

\* the entries a failed run has not reached
Unreached(p) ==
    /\ ~ Covers(QTarget, p)
    /\ \A s \in Events("move") \cup Events("movefail") : ~ Covers(s, p)

\* C8: a failure of a listing or of a move is the last thing the run does;
\* the entries moved before it are at their destinations and gone from
\* their places, the entries not reached are where they were
C8_AbortNoRollback ==
    /\ \A i \in 1..Len(log) :
          log[i].op \in {"listfail", "movefail"} => i = Len(log) /\ pc = "aborted"
    /\ pc = "aborted" =>
          /\ log # <<>> /\ log[Len(log)].op \in {"listfail", "movefail"}
          /\ \A s \in Events("move") : Archived(s)
          /\ \A p \in DOMAIN fs0 :
                Unreached(p) => p \in DOMAIN fs /\ fs[p] = fs0[p]

\* a move failed after another entry was moved and with entries left to
\* visit
C8_Witness ==
    /\ pc = "aborted" /\ log[Len(log)].op = "movefail"
    /\ Events("move") # {}
    /\ \E i \in 1..Len(stack) : stack[i].todo # {}

\* C9: the removal of an existing quarantine target comes before every
\* listing and every move; a path the walk emits is moved (or fails to
\* move) before the walk goes on, so at most one path is pending and the
\* moves come in the order of the emissions
C9_Interleaving ==
    /\ Len(pending) <= 1
    /\ \A i \in 1..Len(log) : log[i].op = "rmtree" => i = 1
    /\ (pc \in {"walk", "done", "aborted"} /\ IsDir(fs0, QTarget)) =>
          log # <<>> /\ log[1].op = "rmtree"
    /\ \A i \in 1..Len(log) :
          log[i].op = "yield" =>
              IF i = Len(log) THEN pending = <<log[i].path>>
              ELSE /\ log[i + 1].op \in {"move", "movefail"}
                   /\ log[i + 1].path = log[i].path
    /\ \A i \in 1..Len(log) :
          log[i].op \in {"move", "movefail"} =>
              /\ i > 1 /\ log[i - 1].op = "yield"
              /\ log[i - 1].path = log[i].path

\* an existing quarantine target was removed and two paths were emitted and
\* moved in turn
C9_Witness ==
    /\ log # <<>> /\ log[1].op = "rmtree"
    /\ \E i, j \in 1..Len(log) :
          i < j /\ log[i].op = "move" /\ log[j].op = "move"

TargetCovered == \E k \in Elems(keep) : Covers(k, QTarget)

\* the quarantine target is absent, or a directory the pre-clean removes
TargetFresh == ~ Exists(fs0, QTarget) \/ IsDir(fs0, QTarget)

\* C10: with the quarantine target covered by the keep list and absent or
\* removed by the pre-clean, the paths the walk emits are distinct, none lies
\* under another, they are the paths a walk over the initial tree emits, and
\* the destination of a path does not exist when the path is about to be
\* moved
C10_NoCollision ==
    (pc \in {"walk", "done", "aborted"} /\ TargetCovered /\ TargetFresh) =>
        /\ \A i, j \in 1..Len(log) :
              (i < j /\ log[i].op = "yield" /\ log[j].op = "yield") =>
                  /\ ~ Covers(log[i].path, log[j].path)
                  /\ ~ Covers(log[j].path, log[i].path)
        /\ LET static == walk(fs0, root, keep)
           IN  /\ Events("yield") \subseteq static
               /\ pc = "done" => static \subseteq Events("yield")
        /\ (pc = "walk" /\ pending # <<>>) =>
              LET to == destination(root, target, Head(pending))
              IN  /\ to \notin DOMAIN fs
                  /\ IsDir(fs, Dirname(to)) \/ makedirs_ok(fs, Dirname(to))

\* a path is about to be moved into a directory that makedirs made under
\* the quarantine target for an earlier move, after the pre-clean
C10_Witness ==
    /\ pc = "walk" /\ pending # <<>> /\ TargetCovered
    /\ log[1].op = "rmtree" /\ Events("move") # {}
    /\ IsDir(fs, Dirname(destination(root, target, Head(pending))))
    /\ Dirname(destination(root, target, Head(pending))) \notin DOMAIN fs0

====
